---- MODULE Spec2Model ----
(***************************************************************************)
(* Model of scripts/claude_stream_pretty.py: a line-buffering pretty       *)
(* printer for newline-delimited JSON stream events.                       *)
(*                                                                         *)
(* A Python str is a sequence of one-character strings.  Standard output   *)
(* is the sequence of characters written so far.  A decoded JSON value is  *)
(* a tagged record (JNull, JBool, JNum, JStr, JArr, JObj).                 *)
(***************************************************************************)
EXTENDS Integers, Sequences, FiniteSets, TLC

VARIABLES
    buf,             \* Printer._buf
    tool_input_max,  \* Printer._tool_input_max
    out,             \* every character written to sys.stdout so far
    pc,              \* "run": main is in its read loop; "done": main returned 0;
                     \* "crashed": an exception left main
    inp,             \* history: the stdin lines main has consumed
    calls            \* history: the Printer methods invoked directly (SpecPrinter)

vars == <<buf, tool_input_max, out, pc, inp, calls>>

(***************************************************************************)
(* Bounds of the model.                                                    *)
(***************************************************************************)
MaxLines == 3      \* stdin lines main reads before end of input
MaxCalls == 3      \* Printer method calls in SpecPrinter / SpecTrunc
MaxLimit == 3      \* largest overridden truncation limit (besides the default)

(***************************************************************************)
(* Characters and Python str helpers.                                      *)
(***************************************************************************)
NL == "\n"
Ellipsis == "U+2026"          \* the single character "…" of _truncate
Whitespace == {" ", NL}       \* the str.strip() whitespace that occurs here

IsIn(c, s) == \E i \in 1..Len(s) : s[i] = c

\* s[:i] + s[j:] pieces
Prefix(s, n) == SubSeq(s, 1, n)
Suffix(s, n) == SubSeq(s, n, Len(s))

\* Python s[:k] for any integer k: a negative k counts from the end.
PySlicePrefix(s, k) ==
    IF k >= 0
    THEN Prefix(s, IF k < Len(s) THEN k ELSE Len(s))
    ELSE Prefix(s, IF Len(s) + k > 0 THEN Len(s) + k ELSE 0)

\* str.strip(): drop leading and trailing whitespace.
Strip(s) ==
    LET keep == {i \in 1..Len(s) : s[i] \notin Whitespace}
    IN  IF keep = {} THEN <<>>
        ELSE LET lo == CHOOSE i \in keep : \A j \in keep : i <= j
                 hi == CHOOSE i \in keep : \A j \in keep : j <= i
             IN  SubSeq(s, lo, hi)

\* str.rstrip("\n"): drop trailing newlines only.
RStripNL(s) ==
    LET keep == {i \in 1..Len(s) : s[i] # NL}
    IN  IF keep = {} THEN <<>>
        ELSE Prefix(s, CHOOSE i \in keep : \A j \in keep : j <= i)

\* s.split("\n", 1) for s containing a newline: <<line, rest>>.
SplitFirstNL(s) ==
    LET i == CHOOSE k \in 1..Len(s) : s[k] = NL /\ \A j \in 1..(k - 1) : s[j] # NL
    IN  <<Prefix(s, i - 1), Suffix(s, i + 1)>>

(***************************************************************************)
(* String literals of the program.                                         *)
(***************************************************************************)
S_unknown == <<"u","n","k","n","o","w","n">>
S_success == <<"s","u","c","c","e","s","s">>
S_error == <<"e","r","r","o","r">>
S_tool_use_header == <<">",">",">"," ","t","o","o","l","_","u","s","e"," ">>
S_id_eq == <<" ","i","d","=">>
S_eqs_open == <<"=","=","="," ">>
S_eqs_close == <<" ","=","=","=">>

(***************************************************************************)
(* _println, _truncate                                                     *)
(***************************************************************************)
\* Mutant: writes s the way _print does, without the newline.
_println_AsPrint(p, s) == [p EXCEPT !.out = @ \o s]

\* A printer state p is [buf, tool_input_max, out].
_println(p, s) == [p EXCEPT !.out = @ \o s \o <<NL>>]

\* Mutant: cuts at n instead of n - 1, so the marker is one character too many.
_truncate_CutAtN(s, n) ==
    IF Len(s) <= n THEN s ELSE PySlicePrefix(s, n) \o <<Ellipsis>>

_truncate(s, n) ==
    IF Len(s) <= n THEN s ELSE PySlicePrefix(s, n - 1) \o <<Ellipsis>>

(***************************************************************************)
(* Decoded JSON values (what json.loads returns).  Python None is JNull.   *)
(* An object is the sequence of its <<key, value>> pairs, in the order of  *)
(* the text (a Python dict keeps insertion order); keys are distinct.      *)
(***************************************************************************)
JNull == [k |-> "null"]
JBool(b) == [k |-> "bool", b |-> b]
JNum(n) == [k |-> "num", n |-> n]
JStr(s) == [k |-> "str", s |-> s]
JArr(a) == [k |-> "arr", a |-> a]
JObj(m) == [k |-> "obj", m |-> m]

\* v is None, isinstance(v, dict), isinstance(v, str)
IsNone(v) == v.k = "null"
IsDict(v) == v.k = "obj"
IsStr(v) == v.k = "str"

\* bool(v): None, False, 0, "", [] and {} are falsy.
Truthy(v) ==
    CASE v.k = "null" -> FALSE
      [] v.k = "bool" -> v.b
      [] v.k = "num"  -> v.n # 0
      [] v.k = "str"  -> v.s # <<>>
      [] v.k = "arr"  -> v.a # <<>>
      [] v.k = "obj"  -> v.m # <<>>

\* `v or d`
Or(v, d) == IF Truthy(v) THEN v ELSE d

\* k in d, d[k], d.get(k) for a dict d
HasKey(d, key) == \E i \in 1..Len(d.m) : d.m[i][1] = key
Item(d, key) == d.m[CHOOSE i \in 1..Len(d.m) : d.m[i][1] = key][2]
DictGet(d, key) == IF HasKey(d, key) THEN Item(d, key) ELSE JNull

Digit(d) ==
    CASE d = 0 -> "0" [] d = 1 -> "1" [] d = 2 -> "2" [] d = 3 -> "3" [] d = 4 -> "4"
      [] d = 5 -> "5" [] d = 6 -> "6" [] d = 7 -> "7" [] d = 8 -> "8" [] d = 9 -> "9"

\* str(n) of an int
RECURSIVE NatToStr(_)
NatToStr(n) == IF n < 10 THEN <<Digit(n)>> ELSE NatToStr(n \div 10) \o <<Digit(n % 10)>>
IntToStr(n) == IF n < 0 THEN <<"-">> \o NatToStr(0 - n) ELSE NatToStr(n)

\* sep.join(parts)
RECURSIVE Join(_, _)
Join(parts, sep) ==
    IF parts = <<>> THEN <<>>
    ELSE IF Len(parts) = 1 THEN parts[1]
    ELSE parts[1] \o sep \o Join(Tail(parts), sep)

\* The text of a JSON string as json.dumps(ensure_ascii=False) writes it:
\* the quote, the backslash and the newline are escaped.
JsonEscape(c) ==
    CASE c = "\"" -> <<"\\", "\"">>
      [] c = "\\" -> <<"\\", "\\">>
      [] c = NL   -> <<"\\", "n">>
      [] OTHER    -> <<c>>
JsonQuote(s) == <<"\"">> \o Join([i \in 1..Len(s) |-> JsonEscape(s[i])], <<>>) \o <<"\"">>

\* json.dumps(v, ensure_ascii=False, separators=(",", ":"))
RECURSIVE JsonDumps(_)
JsonDumps(v) ==
    CASE v.k = "null" -> <<"n","u","l","l">>
      [] v.k = "bool" -> IF v.b THEN <<"t","r","u","e">> ELSE <<"f","a","l","s","e">>
      [] v.k = "num"  -> IntToStr(v.n)
      [] v.k = "str"  -> JsonQuote(v.s)
      [] v.k = "arr"  ->
            <<"[">> \o Join([i \in 1..Len(v.a) |-> JsonDumps(v.a[i])], <<",">>) \o <<"]">>
      [] v.k = "obj"  ->
            <<"{">> \o Join([i \in 1..Len(v.m) |->
                                JsonQuote(v.m[i][1]) \o <<":">> \o JsonDumps(v.m[i][2])],
                            <<",">>) \o <<"}">>

\* repr(s) of a str: single quotes, unless s holds a single quote and no
\* double quote; the backslash and the newline are escaped.
ReprEscape(c, q) ==
    CASE c = "\\" -> <<"\\", "\\">>
      [] c = NL   -> <<"\\", "n">>
      [] c = q    -> <<"\\", q>>
      [] OTHER    -> <<c>>
ReprStr(s) ==
    LET q == IF IsIn("'", s) /\ ~IsIn("\"", s) THEN "\"" ELSE "'"
    IN  <<q>> \o Join([i \in 1..Len(s) |-> ReprEscape(s[i], q)], <<>>) \o <<q>>

\* repr(v)
RECURSIVE PyRepr(_)
PyRepr(v) ==
    CASE v.k = "null" -> <<"N","o","n","e">>
      [] v.k = "bool" -> IF v.b THEN <<"T","r","u","e">> ELSE <<"F","a","l","s","e">>
      [] v.k = "num"  -> IntToStr(v.n)
      [] v.k = "str"  -> ReprStr(v.s)
      [] v.k = "arr"  ->
            <<"[">> \o Join([i \in 1..Len(v.a) |-> PyRepr(v.a[i])], <<",", " ">>) \o <<"]">>
      [] v.k = "obj"  ->
            <<"{">> \o Join([i \in 1..Len(v.m) |->
                                ReprStr(v.m[i][1]) \o <<":", " ">> \o PyRepr(v.m[i][2])],
                            <<",", " ">>) \o <<"}">>

\* str(v), also what an f-string writes for {v}
PyStr(v) == IF IsStr(v) THEN v.s ELSE PyRepr(v)

(***************************************************************************)
(* _json_compact: json.dumps of a decoded JSON value never raises, so the  *)
(* repr fallback is not reached for values that come from json.loads.      *)
(***************************************************************************)
_json_compact(v, max_len) == _truncate(JsonDumps(v), max_len)

(***************************************************************************)
(* class Printer                                                           *)
(***************************************************************************)
\* Mutant: clears the buffer without writing it.
flush_DropText(p) == [p EXCEPT !.buf = <<>>]

\* Mutant: writes the buffer and forgets to clear it.
flush_KeepBuffer(p) ==
    IF p.buf # <<>> THEN _println(p, p.buf) ELSE p

flush(p) ==
    IF p.buf # <<>> THEN [_println(p, p.buf) EXCEPT !.buf = <<>>] ELSE p

\* The while loop of on_text_delta.
RECURSIVE SplitLoop(_)
SplitLoop(p) ==
    IF IsIn(NL, p.buf)
    THEN LET lr == SplitFirstNL(p.buf)
         IN  SplitLoop([_println(p, lr[1]) EXCEPT !.buf = lr[2]])
    ELSE p

\* Mutant: the fragment replaces the buffer instead of extending it.
on_text_delta_Overwrite(p, t) == SplitLoop([p EXCEPT !.buf = t])

\* Mutant: `if` for `while`, one line is split off per call.
on_text_delta_SplitOnce(p, t) ==
    LET p1 == [p EXCEPT !.buf = @ \o t]
    IN  IF IsIn(NL, p1.buf)
        THEN LET lr == SplitFirstNL(p1.buf)
             IN  [_println(p1, lr[1]) EXCEPT !.buf = lr[2]]
        ELSE p1

\* t is a str here; main's caller decides what a non-str does.
on_text_delta(p, t) == SplitLoop([p EXCEPT !.buf = @ \o t])

\* Mutant: the suffix is written whenever tool_id is not None, empty or not.
on_tool_use_IdByPresence(p, name, tool_input, tool_id) ==
    LET p1 == flush(p)
        suffix == IF ~IsNone(tool_id) THEN S_id_eq \o PyStr(tool_id) ELSE <<>>
        p2 == _println(p1, <<NL>> \o S_tool_use_header \o name \o suffix)
    IN  IF ~IsNone(tool_input)
        THEN _println(p2, _json_compact(tool_input, p.tool_input_max))
        ELSE p2

\* name is a str; tool_input and tool_id are decoded JSON values (or None).
on_tool_use(p, name, tool_input, tool_id) ==
    LET p1 == flush(p)
        suffix == IF Truthy(tool_id) THEN S_id_eq \o PyStr(tool_id) ELSE <<>>
        p2 == _println(p1, <<NL>> \o S_tool_use_header \o name \o suffix)
    IN  IF ~IsNone(tool_input)
        THEN _println(p2, _json_compact(tool_input, p.tool_input_max))
        ELSE p2

\* Mutant: the pending text is flushed only when the message is printed.
on_final_message_FlushIfText(p, text) ==
    IF Strip(text) # <<>> THEN _println(flush(p), RStripNL(text)) ELSE p

on_final_message(p, text) ==
    LET p1 == flush(p)
    IN  IF Strip(text) # <<>> THEN _println(p1, RStripNL(text)) ELSE p1

\* Mutant: the pending text is flushed after the event's output.
on_result_FlushLast(p, ok, result_text) ==
    LET status == IF ok THEN S_success ELSE S_error
        p2 == _println(p, <<NL>> \o S_eqs_open \o status \o S_eqs_close)
        p3 == IF Strip(result_text) # <<>> THEN _println(p2, RStripNL(result_text)) ELSE p2
    IN  flush(p3)

\* Mutant: the header is written without the blank line before it.
on_result_NoBlankLine(p, ok, result_text) ==
    LET p1 == flush(p)
        status == IF ok THEN S_success ELSE S_error
        p2 == _println(p1, S_eqs_open \o status \o S_eqs_close)
    IN  IF Strip(result_text) # <<>> THEN _println(p2, RStripNL(result_text)) ELSE p2

on_result(p, ok, result_text) ==
    LET p1 == flush(p)
        status == IF ok THEN S_success ELSE S_error
        p2 == _println(p1, <<NL>> \o S_eqs_open \o status \o S_eqs_close)
    IN  IF Strip(result_text) # <<>> THEN _println(p2, RStripNL(result_text)) ELSE p2


(***************************************************************************)
(* Keys and discriminants main looks at.                                   *)
(***************************************************************************)
K_type == <<"t","y","p","e">>
K_event == <<"e","v","e","n","t">>
K_delta == <<"d","e","l","t","a">>
K_text == <<"t","e","x","t">>
K_message == <<"m","e","s","s","a","g","e">>
K_content == <<"c","o","n","t","e","n","t">>
K_name == <<"n","a","m","e">>
K_input == <<"i","n","p","u","t">>
K_id == <<"i","d">>
K_is_error == <<"i","s","_","e","r","r","o","r">>
K_result == <<"r","e","s","u","l","t">>
T_stream_event == <<"s","t","r","e","a","m","_","e","v","e","n","t">>
T_text_delta == <<"t","e","x","t","_","d","e","l","t","a">>
T_assistant == <<"a","s","s","i","s","t","a","n","t">>
T_tool_use == <<"t","o","o","l","_","u","s","e">>
T_text == <<"t","e","x","t">>
T_result == <<"r","e","s","u","l","t">>

\* v == "literal" for a decoded value v
EqStr(v, s) == IsStr(v) /\ v.s = s

(***************************************************************************)
(* _get(d, *keys)                                                          *)
(***************************************************************************)
RECURSIVE _get(_, _)
_get(cur, keys) ==
    IF keys = <<>> THEN cur
    ELSE IF ~IsDict(cur) \/ ~HasKey(cur, Head(keys)) THEN JNull
    ELSE _get(Item(cur, Head(keys)), Tail(keys))

(***************************************************************************)
(* main: the body of the read loop.  A handler yields [p, raised]: the     *)
(* printer state it leaves and whether an exception left it (nothing in    *)
(* main catches one past json.loads, so it ends the process).              *)
(***************************************************************************)
Ok(p) == [p |-> p, raised |-> FALSE]
Raise(p) == [p |-> p, raised |-> TRUE]

\* t == "stream_event"
HandleStreamEvent(p, obj) ==
    LET delta_type == _get(obj, <<K_event, K_delta, K_type>>)
    IN  IF EqStr(delta_type, T_text_delta)
        THEN LET text == Or(_get(obj, <<K_event, K_delta, K_text>>), JStr(<<>>))
             IN  IF Truthy(text)
                 THEN \* self._buf += t raises TypeError unless t is a str
                      IF IsStr(text) THEN Ok(on_text_delta(p, text.s)) ELSE Raise(p)
                 ELSE Ok(p)
        ELSE Ok(p)

\* One content block of an "assistant" record.
HandleBlock(p, block) ==
    IF ~IsDict(block) THEN p
    ELSE LET bt == DictGet(block, K_type)
         IN  IF EqStr(bt, T_tool_use)
             THEN on_tool_use(p,
                              PyStr(Or(DictGet(block, K_name), JStr(S_unknown))),
                              DictGet(block, K_input),
                              DictGet(block, K_id))
             ELSE IF EqStr(bt, T_text)
             THEN LET text == Or(DictGet(block, K_text), JStr(<<>>))
                  IN  IF Truthy(text) THEN on_final_message(p, PyStr(text)) ELSE p
             ELSE p

\* Mutant: the blocks are handled last to first.
RECURSIVE HandleBlocks_Reversed(_, _)
HandleBlocks_Reversed(p, blocks) ==
    IF blocks = <<>> THEN p
    ELSE HandleBlock(HandleBlocks_Reversed(p, Tail(blocks)), Head(blocks))

\* for block in content
RECURSIVE HandleBlocks(_, _)
HandleBlocks(p, blocks) ==
    IF blocks = <<>> THEN p
    ELSE HandleBlocks(HandleBlock(p, Head(blocks)), Tail(blocks))

\* What `for block in content` iterates over: a list's items, a str's
\* characters, a dict's keys.
IterItems(content) ==
    CASE content.k = "arr" -> content.a
      [] content.k = "str" -> [i \in 1..Len(content.s) |-> JStr(<<content.s[i]>>)]
      [] content.k = "obj" -> [i \in 1..Len(content.m) |-> JStr(content.m[i][1])]

\* Mutant: every "assistant" record flushes the pending text on arrival.
HandleAssistant_FlushFirst(p, obj) ==
    LET msg == Or(DictGet(obj, K_message), JObj(<<>>))
    IN  IF ~IsDict(msg) THEN Raise(p)
        ELSE LET content == Or(DictGet(msg, K_content), JArr(<<>>))
             IN  IF content.k \in {"num", "bool"} THEN Raise(p)
                 ELSE Ok(HandleBlocks(flush(p), IterItems(content)))

\* t == "assistant"
HandleAssistant(p, obj) ==
    LET msg == Or(DictGet(obj, K_message), JObj(<<>>))
    IN  IF ~IsDict(msg) THEN Raise(p)          \* msg.get: AttributeError
        ELSE LET content == Or(DictGet(msg, K_content), JArr(<<>>))
             IN  IF content.k \in {"num", "bool"} THEN Raise(p)   \* not iterable
                 ELSE Ok(HandleBlocks(p, IterItems(content)))

\* Mutant: the result ends the run (as a `raise SystemExit` after rendering).
HandleResult_Terminal(p, obj) ==
    LET ok == ~Truthy(DictGet(obj, K_is_error))
        result_text == Or(DictGet(obj, K_result), JStr(<<>>))
    IN  Raise(on_result(p, ok, PyStr(result_text)))

\* Mutant: ok is is_error, not its negation.
HandleResult_OkFromIsError(p, obj) ==
    LET ok == Truthy(DictGet(obj, K_is_error))
        result_text == Or(DictGet(obj, K_result), JStr(<<>>))
    IN  Ok(on_result(p, ok, PyStr(result_text)))

\* t == "result"
HandleResult(p, obj) ==
    LET ok == ~Truthy(DictGet(obj, K_is_error))
        result_text == Or(DictGet(obj, K_result), JStr(<<>>))
    IN  Ok(on_result(p, ok, PyStr(result_text)))

\* Mutant: an unrecognized record flushes the pending text.
HandleObject_FlushOnUnknown(p, obj) ==
    IF ~IsDict(obj) THEN Raise(p)
    ELSE LET t == DictGet(obj, K_type)
         IN  IF EqStr(t, T_stream_event) THEN HandleStreamEvent(p, obj)
             ELSE IF EqStr(t, T_assistant) THEN HandleAssistant(p, obj)
             ELSE IF EqStr(t, T_result) THEN HandleResult(p, obj)
             ELSE Ok(flush(p))

\* A decoded line.
HandleObject(p, obj) ==
    IF ~IsDict(obj) THEN Raise(p)              \* obj.get: AttributeError
    ELSE LET t == DictGet(obj, K_type)
         IN  IF EqStr(t, T_stream_event) THEN HandleStreamEvent(p, obj)
             ELSE IF EqStr(t, T_assistant) THEN HandleAssistant(p, obj)
             ELSE IF EqStr(t, T_result) THEN HandleResult(p, obj)
             ELSE Ok(p)

(***************************************************************************)
(* A stdin line is [text |-> chars], the characters of a line that is not  *)
(* JSON (its terminator left out), or [json |-> v], a line whose text      *)
(* json.loads decodes to v.  The text lines are over "x" and " ": blank    *)
(* when they hold no "x", and never valid JSON otherwise.                  *)
(***************************************************************************)
IsJsonLine(l) == "json" \in DOMAIN l

\* One iteration of `for raw in sys.stdin`.
HandleLine(p, l) ==
    IF IsJsonLine(l) THEN HandleObject(p, l.json)
    ELSE LET line == Strip(l.text)
         IN  IF line = <<>> THEN Ok(p)
             ELSE Ok(_println(flush(p), line))   \* json.loads raised

(***************************************************************************)
(* The inputs the model draws from.                                        *)
(***************************************************************************)
Pair(key, v) == <<key, v>>

\* {"type":"stream_event","event":{"delta":<delta>}}
StreamEvent(delta) ==
    JObj(<<Pair(K_type, JStr(T_stream_event)),
           Pair(K_event, JObj(<<Pair(K_delta, delta)>>))>>)
\* ... with delta {"type":"text_delta","text":<text>}
TextDelta(text) ==
    StreamEvent(JObj(<<Pair(K_type, JStr(T_text_delta)), Pair(K_text, text)>>))
\* {"type":"assistant","message":{"content":<content>}}
Assistant(content) ==
    JObj(<<Pair(K_type, JStr(T_assistant)),
           Pair(K_message, JObj(<<Pair(K_content, content)>>))>>)
TextBlock(text) == JObj(<<Pair(K_type, JStr(T_text)), Pair(K_text, JStr(text))>>)
ToolUseBlock(name, input, id) ==
    JObj(<<Pair(K_type, JStr(T_tool_use)), Pair(K_name, name),
           Pair(K_input, input), Pair(K_id, id)>>)
\* {"type":"result","is_error":<is_error>,"result":<result>}
Result(is_error, result) ==
    JObj(<<Pair(K_type, JStr(T_result)), Pair(K_is_error, is_error),
           Pair(K_result, result)>>)

\* Text-delta fragments: "A" and "B" occur in no other output of the model.
Fragments ==
    {<<"A">>, <<"B">>, <<NL>>, <<"A", NL>>, <<NL, "B">>, <<NL, NL>>,
     <<"A", NL, "B", NL>>}
StreamFragments == {<<"A">>, <<"B", NL>>, <<"A", NL, "B">>}

\* Tool-input payloads, with their compact serializations.
PayloadA1 == JObj(<<Pair(<<"a">>, JNum(1))>>)                \* {"a":1}
Payloads ==
    {JNum(7),                                                \* 7
     JBool(TRUE),                                            \* true
     JStr(<<"a", NL>>),                                      \* "a\n"
     JArr(<<JNum(1), JNull>>),                               \* [1,null]
     PayloadA1,
     JObj(<<>>)}                                             \* {}

BlankLines == {[text |-> <<>>], [text |-> <<" ">>]}
NonJsonLines == {[text |-> <<"x">>], [text |-> <<" ", "x", " ">>]}
NonObjectLines ==
    {[json |-> JNum(42)], [json |-> JStr(<<"s">>)], [json |-> JArr(<<>>)],
     [json |-> JNull]}
OtherLines ==
    {[json |-> JObj(<<>>)],
     [json |-> JObj(<<Pair(K_type, JStr(<<"s","y","s","t","e","m">>))>>)]}
StreamLines ==
    {[json |-> StreamEvent(JObj(<<Pair(K_type, JStr(<<"i","n","p","u","t","_","j","s","o","n","_","d","e","l","t","a">>))>>))],
     [json |-> StreamEvent(JObj(<<Pair(K_type, JStr(T_text_delta))>>))],
     [json |-> TextDelta(JStr(<<>>))],
     [json |-> TextDelta(JNum(5))]}
    \cup {[json |-> TextDelta(JStr(f))] : f \in StreamFragments}
AssistantLines ==
    {[json |-> JObj(<<Pair(K_type, JStr(T_assistant))>>)],
     [json |-> JObj(<<Pair(K_type, JStr(T_assistant)), Pair(K_message, JStr(<<"s">>))>>)],
     [json |-> Assistant(JNum(5))],
     [json |-> Assistant(JStr(<<"s">>))],
     [json |-> Assistant(JArr(<<JNum(5), JObj(<<Pair(K_type, JStr(<<"o">>))>>)>>))],
     [json |-> Assistant(JArr(<<TextBlock(<<>>)>>))],
     [json |-> Assistant(JArr(<<TextBlock(<<"m", NL>>)>>))],
     [json |-> Assistant(JArr(<<JObj(<<Pair(K_type, JStr(T_tool_use))>>)>>))],
     [json |-> Assistant(JArr(<<ToolUseBlock(JStr(<<"T">>), PayloadA1, JStr(<<"i">>))>>))],
     [json |-> Assistant(JArr(<<ToolUseBlock(JStr(<<>>), JNull, JStr(<<>>))>>))],
     [json |-> Assistant(JArr(<<TextBlock(<<"m">>), JNum(5),
                                ToolUseBlock(JStr(<<"T">>), PayloadA1, JStr(<<"i">>))>>))]}
ResultLines ==
    {[json |-> JObj(<<Pair(K_type, JStr(T_result))>>)],
     [json |-> Result(JBool(FALSE), JStr(<<"d","o","n","e">>))],
     [json |-> Result(JBool(TRUE), JStr(<<"r", NL>>))],
     [json |-> Result(JBool(TRUE), JStr(<<" ">>))]}

\* The text deltas of the end-to-end example: "Hello", " world\n".
S_Hello == <<"H","e","l","l","o">>
S_world == <<" ","w","o","r","l","d","\n">>
ExampleLines == {[json |-> TextDelta(JStr(S_Hello))], [json |-> TextDelta(JStr(S_world))]}

StdinLines ==
    BlankLines \cup NonJsonLines \cup NonObjectLines \cup OtherLines
    \cup StreamLines \cup AssistantLines \cup ResultLines \cup ExampleLines

\* Direct calls of the Printer's methods.
ToolUseCalls ==
    {[name |-> <<"T">>, tool_input |-> JNull, tool_id |-> JNull],
     [name |-> <<"T">>, tool_input |-> PayloadA1, tool_id |-> JStr(<<"i">>)]}
FinalTexts == {<<"m">>, <<" ", NL>>, <<"m", NL>>, <<"m", NL, NL>>}
ResultTexts == {<<>>, <<"r", NL>>}

\* Values of CLAUDE_PRETTY_TOOL_INPUT_MAX: any integer parses.
DefaultToolInputMax == 800
OverriddenLimits == (-1)..MaxLimit

(***************************************************************************)
(* State machine.                                                          *)
(***************************************************************************)
Cur == [buf |-> buf, tool_input_max |-> tool_input_max, out |-> out]

\* Printer() with the override unset; nothing read or written yet.
Init ==
    /\ buf = <<>>
    /\ tool_input_max = DefaultToolInputMax
    /\ out = <<>>
    /\ pc = "run"
    /\ inp = <<>>
    /\ calls = <<>>

\* Printer() with CLAUDE_PRETTY_TOOL_INPUT_MAX set.
InitOverride ==
    /\ buf = <<>>
    /\ tool_input_max \in OverriddenLimits
    /\ out = <<>>
    /\ pc = "run"
    /\ inp = <<>>
    /\ calls = <<>>

\* main reads the next stdin line and handles it.
ReadLine ==
    /\ pc = "run"
    /\ Len(inp) < MaxLines
    /\ \E l \in StdinLines :
          LET r == HandleLine(Cur, l)
          IN  /\ buf' = r.p.buf
              /\ out' = r.p.out
              /\ pc' = IF r.raised THEN "crashed" ELSE "run"
              /\ inp' = Append(inp, l)
    /\ UNCHANGED <<tool_input_max, calls>>

\* Mutant: main returns without the final flush.
EndOfInput_NoFlush ==
    /\ pc = "run"
    /\ pc' = "done"
    /\ UNCHANGED <<buf, out, tool_input_max, inp, calls>>

\* stdin is exhausted: p.flush(); return 0
EndOfInput ==
    /\ pc = "run"
    /\ LET p1 == flush(Cur)
       IN  /\ buf' = p1.buf
           /\ out' = p1.out
    /\ pc' = "done"
    /\ UNCHANGED <<tool_input_max, inp, calls>>

Next == ReadLine \/ EndOfInput

Spec == Init /\ [][Next]_vars

\* The Printer driven directly, one method call at a time.
Called(p, c) ==
    /\ pc = "run"
    /\ Len(calls) < MaxCalls
    /\ buf' = p.buf
    /\ out' = p.out
    /\ calls' = Append(calls, c)
    /\ UNCHANGED <<tool_input_max, pc, inp>>

CallFlush == Called(flush(Cur), [op |-> "flush"])

CallOnTextDelta ==
    \E t \in Fragments \cup {<<>>} :
        Called(on_text_delta(Cur, t), [op |-> "on_text_delta", t |-> t])

CallOnToolUse ==
    \E c \in ToolUseCalls :
        Called(on_tool_use(Cur, c.name, c.tool_input, c.tool_id),
               [op |-> "on_tool_use", name |-> c.name, tool_input |-> c.tool_input,
                tool_id |-> c.tool_id])

CallOnFinalMessage ==
    \E text \in FinalTexts :
        Called(on_final_message(Cur, text), [op |-> "on_final_message", text |-> text])

CallOnResult ==
    \E ok \in BOOLEAN, text \in ResultTexts :
        Called(on_result(Cur, ok, text),
               [op |-> "on_result", ok |-> ok, result_text |-> text])

NextPrinter ==
    CallFlush \/ CallOnTextDelta \/ CallOnToolUse \/ CallOnFinalMessage \/ CallOnResult

SpecPrinter == Init /\ [][NextPrinter]_vars

\* on_tool_use under an overridden limit, for every payload.
CallOnToolUsePayload ==
    \E v \in Payloads :
        Called(on_tool_use(Cur, <<"T">>, v, JNull),
               [op |-> "on_tool_use", name |-> <<"T">>, tool_input |-> v,
                tool_id |-> JNull])

NextTrunc == CallOnToolUsePayload

SpecTrunc == InitOverride /\ [][NextTrunc]_vars

(***************************************************************************)
(* Vocabulary of the properties.                                           *)
(***************************************************************************)
LastOf(s) == s[Len(s)]
FrontOf(s) == SubSeq(s, 1, Len(s) - 1)
IsPrefixOf(s, t) == Len(s) <= Len(t) /\ SubSeq(t, 1, Len(s)) = s

\* s.split("\n"): the pieces between the newlines of s (never empty).
RECURSIVE PiecesNL(_)
PiecesNL(s) ==
    LET nl == {i \in 1..Len(s) : s[i] = NL}
    IN  IF nl = {} THEN <<s>>
        ELSE LET i == CHOOSE k \in nl : \A j \in nl : k <= j
             IN  <<SubSeq(s, 1, i - 1)>> \o PiecesNL(SubSeq(s, i + 1, Len(s)))

\* The output lines written so far; stdout is empty or ends a line.
EndsLine(o) == o = <<>> \/ LastOf(o) = NL
LinesOf(o) == FrontOf(PiecesNL(o))

\* What writing a pending partial line adds to stdout.
PendingLine(b) == IF b = <<>> THEN <<>> ELSE b \o <<NL>>

RECURSIVE ConcatAll(_)
ConcatAll(ss) == IF ss = <<>> THEN <<>> ELSE Head(ss) \o ConcatAll(Tail(ss))

\* A step that invokes a Printer method directly / reads a stdin line.
Calling(op) == calls' # calls /\ LastOf(calls').op = op
Reading == inp' # inp
LineRead == LastOf(inp')

IsDeltaChar(c) == c \in {"A", "B"}
HasNonSpace(s) == \E i \in 1..Len(s) : s[i] \notin Whitespace

(***************************************************************************)
(* C1.  Text-delta fragments fed to on_text_delta from an empty buffer,    *)
(* with no other call in between: the lines written are the pieces of the  *)
(* concatenated fragments between newlines, except the last piece; the     *)
(* last piece is the buffer, and a flush that follows writes it (when it   *)
(* is not empty) as the next line and empties the buffer.                  *)
(***************************************************************************)
OnlyTextDeltas(cs) == \A i \in 1..Len(cs) : cs[i].op = "on_text_delta"
FedText(cs) == ConcatAll([i \in 1..Len(cs) |-> cs[i].t])

C1_LinesAreSplitOfConcatenation ==
    /\ OnlyTextDeltas(calls) =>
          LET pieces == PiecesNL(FedText(calls))
          IN  /\ EndsLine(out)
              /\ LinesOf(out) = FrontOf(pieces)
              /\ buf = LastOf(pieces)
    /\ (calls # <<>> /\ LastOf(calls).op = "flush" /\ OnlyTextDeltas(FrontOf(calls))) =>
          LET pieces == PiecesNL(FedText(FrontOf(calls)))
          IN  /\ EndsLine(out)
              /\ LinesOf(out) = FrontOf(pieces) \o
                                (IF LastOf(pieces) # <<>> THEN <<LastOf(pieces)>> ELSE <<>>)
              /\ buf = <<>>

\* Two fragments whose concatenation "A\nBA" holds a full line and a
\* remainder, then the flush that releases the remainder.
C1_Witness ==
    /\ calls = <<[op |-> "on_text_delta", t |-> <<"A", NL>>],
                 [op |-> "on_text_delta", t |-> <<"B">>],
                 [op |-> "flush"]>>
    /\ out = <<"A", NL, "B", NL>>
    /\ buf = <<>>

(***************************************************************************)
(* C2.  Between operations the buffer never holds a newline.               *)
(***************************************************************************)
C2_BufferHoldsNoNewline == ~IsIn(NL, buf)

\* A fragment with a newline in front of its tail has been appended after
\* one with two newlines.
C2_Witness ==
    /\ calls = <<[op |-> "on_text_delta", t |-> <<"A", NL, "B", NL>>],
                 [op |-> "on_text_delta", t |-> <<NL, "B">>]>>
    /\ out = <<"A", NL, "B", NL, NL>>
    /\ buf = <<"B">>

(***************************************************************************)
(* C3.  No input line makes main terminate abnormally: main is in its read *)
(* loop or has returned 0, whatever the lines were.                        *)
(***************************************************************************)
C3_MainNeverTerminatesAbnormally == pc \in {"run", "done"}

(***************************************************************************)
(* C4.  A line that is not JSON (and not blank) is written verbatim, with  *)
(* its leading and trailing whitespace, after the pending partial line;    *)
(* the buffer is empty afterwards and main goes on reading.                *)
(***************************************************************************)
IsNonJson(l) == ~IsJsonLine(l) /\ HasNonSpace(l.text)

C4_NonJsonLineVerbatim ==
    [][(Reading /\ IsNonJson(LineRead)) =>
          /\ out' = out \o PendingLine(buf) \o LineRead.text \o <<NL>>
          /\ buf' = <<>>
          /\ pc' = "run"]_vars

(***************************************************************************)
(* C5.  on_tool_use, on_final_message and on_result never interleave with  *)
(* an in-progress text line: after the call the buffer is empty, and what  *)
(* was pending has been written as a newline-terminated line before any    *)
(* output of the event.                                                    *)
(***************************************************************************)
C5_EventsFlushFirst ==
    [][(Calling("on_tool_use") \/ Calling("on_final_message") \/ Calling("on_result")) =>
          /\ buf' = <<>>
          /\ IsPrefixOf(out \o PendingLine(buf), out')]_vars

\* "A" was pending when on_result(False, "r\n") was called.
C5_Witness ==
    /\ calls = <<[op |-> "on_text_delta", t |-> <<"A">>],
                 [op |-> "on_result", ok |-> FALSE, result_text |-> <<"r", NL>>]>>
    /\ buf = <<>>
    /\ IsPrefixOf(<<"A", NL, NL, "=">>, out)

(***************************************************************************)
(* C6.  flush is idempotent: on an empty buffer it writes nothing; on a    *)
(* non-empty buffer it writes the buffer as exactly one line and empties   *)
(* it; a flush right after a flush changes nothing.                        *)
(***************************************************************************)
C6_FlushIdempotent ==
    [][Calling("flush") =>
          /\ buf' = <<>>
          /\ out' = out \o PendingLine(buf)
          /\ ~IsIn(NL, buf)
          /\ (calls # <<>> /\ LastOf(calls).op = "flush") => (out' = out /\ buf' = buf)]_vars

\* flush(); flush() with "A" pending.
C6_Witness ==
    /\ calls = <<[op |-> "on_text_delta", t |-> <<"A">>], [op |-> "flush"], [op |-> "flush"]>>
    /\ out = <<"A", NL>>
    /\ buf = <<>>

(***************************************************************************)
(* C7.  The payload line of on_tool_use, for a payload with compact        *)
(* serialization s: s itself when len(s) <= limit; otherwise exactly       *)
(* `limit` characters, the first limit-1 of s and then the truncation      *)
(* marker.  As claimed: for every integer limit.  Amended: for every       *)
(* limit >= 1.                                                             *)
(***************************************************************************)
PayloadLineIsTruncation ==
    LET s == JsonDumps(LastOf(calls).tool_input)
        n == tool_input_max
        line == LastOf(LinesOf(out))
    IN  /\ EndsLine(out)
        /\ Len(s) <= n => line = s
        /\ Len(s) > n => /\ Len(line) = n
                         /\ n >= 1
                         /\ SubSeq(line, 1, n - 1) = SubSeq(s, 1, n - 1)
                         /\ line[n] = Ellipsis

C7_TruncatedToLimit_AnyLimit ==
    calls # <<>> => PayloadLineIsTruncation

C7_TruncatedToLimit ==
    (calls # <<>> /\ tool_input_max >= 1) => PayloadLineIsTruncation

\* {"a":1} (7 characters) under limit 3 is written as {"…
C7_Witness ==
    /\ tool_input_max = 3
    /\ calls # <<>>
    /\ LastOf(calls).tool_input = PayloadA1
    /\ LastOf(LinesOf(out)) = <<"{", "\"", Ellipsis>>

(***************************************************************************)
(* C8.  A "result" record: the pending text is flushed, then a blank line  *)
(* and the header "=== success ===" (is_error absent or false) or          *)
(* "=== error ===" (is_error true) are written, then the result text with  *)
(* its trailing newlines stripped if and only if the text holds a          *)
(* non-whitespace character.                                               *)
(***************************************************************************)
IsRecordOfType(l, ty) ==
    IsJsonLine(l) /\ IsDict(l.json) /\ EqStr(DictGet(l.json, K_type), ty)

H_success == <<"=","=","="," ","s","u","c","c","e","s","s"," ","=","=","=">>
H_error == <<"=","=","="," ","e","r","r","o","r"," ","=","=","=">>

C8_ResultRendering ==
    [][(Reading /\ IsRecordOfType(LineRead, T_result)) =>
          LET is_error == DictGet(LineRead.json, K_is_error)
              text == IF HasKey(LineRead.json, K_result)
                      THEN DictGet(LineRead.json, K_result).s ELSE <<>>
              header == IF IsNone(is_error) \/ is_error = JBool(FALSE)
                        THEN H_success ELSE H_error
              body == IF HasNonSpace(text) THEN RStripNL(text) \o <<NL>> ELSE <<>>
          IN  /\ out' = out \o PendingLine(buf) \o <<NL>> \o header \o <<NL>> \o body
              /\ buf' = <<>>
              /\ pc' = "run"]_vars

\* "A" pending, then {"type":"result","is_error":true,"result":"r\n"}.
C8_Witness ==
    /\ inp = <<[json |-> TextDelta(JStr(<<"A">>))],
               [json |-> Result(JBool(TRUE), JStr(<<"r", NL>>))]>>
    /\ out = <<"A", NL, NL>> \o H_error \o <<NL, "r", NL>>
    /\ buf = <<>>

(***************************************************************************)
(* C9.  When main returns the buffer is empty and every character of every *)
(* text-delta fragment appended during the run has been written.           *)
(***************************************************************************)
\* The fragment a stdin line hands to on_text_delta, if any.
DeltaTextOf(l) ==
    IF IsRecordOfType(l, T_stream_event)
       /\ EqStr(_get(l.json, <<K_event, K_delta, K_type>>), T_text_delta)
       /\ IsStr(_get(l.json, <<K_event, K_delta, K_text>>))
    THEN _get(l.json, <<K_event, K_delta, K_text>>).s
    ELSE <<>>
AppendedText == ConcatAll([i \in 1..Len(inp) |-> DeltaTextOf(inp[i])])

C9_FinalFlushLosesNothing ==
    pc = "done" =>
        /\ buf = <<>>
        /\ EndsLine(out)
        /\ SelectSeq(out, IsDeltaChar) = SelectSeq(AppendedText, IsDeltaChar)

\* Input ends while "B" is still pending.
C9_Witness ==
    /\ pc = "done"
    /\ inp = <<[json |-> TextDelta(JStr(<<"A", NL, "B">>))]>>
    /\ out = <<"A", NL, "B", NL>>

(***************************************************************************)
(* C10.  Ignored input leaves the printer untouched: a blank line, an      *)
(* object whose type is none of stream_event/assistant/result, a           *)
(* stream_event whose delta kind is not text_delta, and a text_delta whose *)
(* text is absent or empty write nothing and leave the buffer as it is.    *)
(***************************************************************************)
IsIgnored(l) ==
    \/ ~IsJsonLine(l) /\ ~HasNonSpace(l.text)
    \/ /\ IsJsonLine(l) /\ IsDict(l.json)
       /\ ~IsRecordOfType(l, T_stream_event)
       /\ ~IsRecordOfType(l, T_assistant)
       /\ ~IsRecordOfType(l, T_result)
    \/ /\ IsRecordOfType(l, T_stream_event)
       /\ ~EqStr(_get(l.json, <<K_event, K_delta, K_type>>), T_text_delta)
    \/ /\ IsRecordOfType(l, T_stream_event)
       /\ EqStr(_get(l.json, <<K_event, K_delta, K_type>>), T_text_delta)
       /\ \/ ~HasKey(_get(l.json, <<K_event, K_delta>>), K_text)
          \/ _get(l.json, <<K_event, K_delta, K_text>>) = JStr(<<>>)

C10_IgnoredInputLeavesPrinterUntouched ==
    [][(Reading /\ IsIgnored(LineRead)) => (buf' = buf /\ out' = out /\ pc' = "run")]_vars

\* "A" is still pending after a blank line and an unrecognized record.
C10_Witness ==
    /\ Len(inp) = 3
    /\ inp[1] = [json |-> TextDelta(JStr(<<"A">>))]
    /\ inp[2] = [text |-> <<" ">>]
    /\ IsIgnored(inp[3]) /\ IsJsonLine(inp[3])
    /\ buf = <<"A">>
    /\ out = <<>>

(***************************************************************************)
(* C11.  A record with a malformed nested shape is handled as the record   *)
(* with that field missing, and never raises: an "assistant" record whose  *)
(* message is not a mapping or whose content is not a sequence, and a      *)
(* text_delta whose text is not a string.  With the field missing each of  *)
(* these records writes nothing and leaves the buffer as it is.            *)
(***************************************************************************)
IsMalformedNested(l) ==
    \/ /\ IsRecordOfType(l, T_assistant)
       /\ HasKey(l.json, K_message)
       /\ ~IsDict(DictGet(l.json, K_message))
    \/ /\ IsRecordOfType(l, T_assistant)
       /\ IsDict(DictGet(l.json, K_message))
       /\ HasKey(DictGet(l.json, K_message), K_content)
       /\ DictGet(DictGet(l.json, K_message), K_content).k # "arr"
    \/ /\ IsRecordOfType(l, T_stream_event)
       /\ EqStr(_get(l.json, <<K_event, K_delta, K_type>>), T_text_delta)
       /\ HasKey(_get(l.json, <<K_event, K_delta>>), K_text)
       /\ ~IsStr(_get(l.json, <<K_event, K_delta, K_text>>))

C11_MalformedNestedShapeAsAbsent ==
    [][(Reading /\ IsMalformedNested(LineRead)) =>
          (buf' = buf /\ out' = out /\ pc' = "run")]_vars

(***************************************************************************)
(* C12.  End to end: the lines text_delta "Hello", text_delta " world\n",  *)
(* result{is_error:false, result:"done"} write nothing after the first     *)
(* record and, in all, exactly the lines "Hello world", "",                *)
(* "=== success ===", "done"; the buffer is empty at the end.              *)
(***************************************************************************)
ExampleInput ==
    <<[json |-> TextDelta(JStr(S_Hello))],
      [json |-> TextDelta(JStr(S_world))],
      [json |-> Result(JBool(FALSE), JStr(<<"d","o","n","e">>))]>>
ExampleOutputLines ==
    <<<<"H","e","l","l","o"," ","w","o","r","l","d">>, <<>>, H_success, <<"d","o","n","e">>>>

C12_EndToEndExample ==
    /\ (inp = SubSeq(ExampleInput, 1, 1) /\ pc = "run") => (out = <<>> /\ buf = S_Hello)
    /\ inp = ExampleInput =>
          /\ EndsLine(out)
          /\ LinesOf(out) = ExampleOutputLines
          /\ buf = <<>>
          /\ pc \in {"run", "done"}

\* main has returned after the three lines of the example.
C12_Witness ==
    /\ inp = ExampleInput
    /\ pc = "done"
    /\ out = <<"H","e","l","l","o"," ","w","o","r","l","d","\n","\n","=","=","="," ","s","u","c","c","e","s","s"," ","=","=","=","\n","d","o","n","e","\n">>

(***************************************************************************)
(* C13.  An "assistant" record with one tool_use block writes, in order:   *)
(* the pending text (if any), a blank line, the header                     *)
(* ">>> tool_use <name>" with name "unknown" when the block's name is      *)
(* absent or falsy, the suffix " id=<id>", and one payload line if and     *)
(* only if the input is present and not null.  As claimed: the suffix is   *)
(* written if and only if an identifier is present.  Amended: if and only  *)
(* if an identifier is present and not empty.                              *)
(***************************************************************************)
H_tool_use == <<">",">",">"," ","t","o","o","l","_","u","s","e"," ">>
H_id == <<" ","i","d","=">>

ContentOf(l) == DictGet(DictGet(l.json, K_message), K_content)
IsAssistantWithBlocks(l) ==
    /\ IsRecordOfType(l, T_assistant)
    /\ IsDict(DictGet(l.json, K_message))
    /\ ContentOf(l).k = "arr"
IsToolUseBlock(b) == IsDict(b) /\ EqStr(DictGet(b, K_type), T_tool_use)
IsSingleToolUse(l) ==
    IsAssistantWithBlocks(l) /\ Len(ContentOf(l).a) = 1 /\ IsToolUseBlock(ContentOf(l).a[1])

IdPresent(b) == HasKey(b, K_id) /\ ~IsNone(DictGet(b, K_id))
IdPresentNotEmpty(b) == IdPresent(b) /\ DictGet(b, K_id) # JStr(<<>>)

\* What a tool_use block adds to stdout once the pending text is out.
ToolUseOutput(b, withSuffix) ==
    LET name == IF HasKey(b, K_name) /\ Truthy(DictGet(b, K_name))
                THEN DictGet(b, K_name).s ELSE S_unknown
        suffix == IF withSuffix THEN H_id \o DictGet(b, K_id).s ELSE <<>>
        input == DictGet(b, K_input)
        payload == IF HasKey(b, K_input) /\ ~IsNone(input)
                   THEN JsonDumps(input) \o <<NL>> ELSE <<>>
    IN  <<NL>> \o H_tool_use \o name \o suffix \o <<NL>> \o payload

PayloadIsOneLine(b) ==
    (HasKey(b, K_input) /\ ~IsNone(DictGet(b, K_input))) =>
        ~IsIn(NL, JsonDumps(DictGet(b, K_input)))

C13_ToolUseRendering_IdPresent ==
    [][(Reading /\ IsSingleToolUse(LineRead)) =>
          LET b == ContentOf(LineRead).a[1]
          IN  /\ out' = out \o PendingLine(buf) \o ToolUseOutput(b, IdPresent(b))
              /\ PayloadIsOneLine(b)
              /\ buf' = <<>>
              /\ pc' = "run"]_vars

C13_ToolUseRendering ==
    [][(Reading /\ IsSingleToolUse(LineRead)) =>
          LET b == ContentOf(LineRead).a[1]
          IN  /\ out' = out \o PendingLine(buf) \o ToolUseOutput(b, IdPresentNotEmpty(b))
              /\ PayloadIsOneLine(b)
              /\ buf' = <<>>
              /\ pc' = "run"]_vars

\* "A" pending, a tool_use with name, id and payload, then one whose name and
\* id are empty and whose input is null.
C13_Witness ==
    /\ inp = <<[json |-> TextDelta(JStr(<<"A">>))],
               [json |-> Assistant(JArr(<<ToolUseBlock(JStr(<<"T">>), PayloadA1, JStr(<<"i">>))>>))],
               [json |-> Assistant(JArr(<<ToolUseBlock(JStr(<<>>), JNull, JStr(<<>>))>>))]>>
    /\ LinesOf(out) = <<<<"A">>, <<>>, H_tool_use \o <<"T">> \o H_id \o <<"i">>,
                        <<"{", "\"", "a", "\"", ":", "1", "}">>,
                        <<>>, H_tool_use \o S_unknown>>
    /\ buf = <<>>

(***************************************************************************)
(* C14.  The content blocks of an "assistant" record are rendered in their *)
(* order, each wholly before the next; a block that is no mapping, or      *)
(* whose type is neither tool_use nor text, writes nothing, and a text     *)
(* block with empty text triggers no rendering.                            *)
(***************************************************************************)
IsTextBlock(b) == IsDict(b) /\ EqStr(DictGet(b, K_type), T_text)
TextOfBlock(b) == IF HasKey(b, K_text) THEN DictGet(b, K_text).s ELSE <<>>

\* The block triggers on_tool_use or on_final_message.
Renders(b) == IsToolUseBlock(b) \/ (IsTextBlock(b) /\ TextOfBlock(b) # <<>>)

\* What the block adds to stdout once the pending text is out.
BlockOutput(b) ==
    IF IsToolUseBlock(b) THEN ToolUseOutput(b, IdPresentNotEmpty(b))
    ELSE IF IsTextBlock(b) /\ HasNonSpace(TextOfBlock(b))
    THEN RStripNL(TextOfBlock(b)) \o <<NL>>
    ELSE <<>>

C14_BlocksRenderedInOrder ==
    [][(Reading /\ IsAssistantWithBlocks(LineRead)) =>
          LET bs == ContentOf(LineRead).a
              any == \E i \in 1..Len(bs) : Renders(bs[i])
          IN  /\ out' = out \o (IF any THEN PendingLine(buf) ELSE <<>>)
                            \o ConcatAll([i \in 1..Len(bs) |-> BlockOutput(bs[i])])
              /\ buf' = IF any THEN <<>> ELSE buf
              /\ pc' = "run"]_vars

\* A text block, a number and a tool_use block in one record, "A" pending.
C14_Witness ==
    /\ inp = <<[json |-> TextDelta(JStr(<<"A">>))],
               [json |-> Assistant(JArr(<<TextBlock(<<"m">>), JNum(5),
                                          ToolUseBlock(JStr(<<"T">>), PayloadA1, JStr(<<"i">>))>>))]>>
    /\ LinesOf(out) = <<<<"A">>, <<"m">>, <<>>, H_tool_use \o <<"T">> \o H_id \o <<"i">>,
                        <<"{", "\"", "a", "\"", ":", "1", "}">>>>
    /\ buf = <<>>

(***************************************************************************)
(* C15.  on_final_message(text) flushes the pending text first, for every  *)
(* text; it then writes the text with its trailing newlines stripped if    *)
(* and only if the text holds a non-whitespace character; the buffer is    *)
(* empty afterwards in both cases.                                         *)
(***************************************************************************)
RECURSIVE DropTrailingNL(_)
DropTrailingNL(s) ==
    IF s # <<>> /\ LastOf(s) = NL THEN DropTrailingNL(FrontOf(s)) ELSE s

C15_FinalMessageRendering ==
    [][Calling("on_final_message") =>
          LET text == LastOf(calls').text
          IN  /\ out' = out \o PendingLine(buf)
                            \o (IF HasNonSpace(text)
                                THEN DropTrailingNL(text) \o <<NL>> ELSE <<>>)
              /\ buf' = <<>>]_vars

\* "A" pending, then a whitespace-only message and a message "m\n".
C15_Witness ==
    /\ calls = <<[op |-> "on_text_delta", t |-> <<"A">>],
                 [op |-> "on_final_message", text |-> <<" ", NL>>],
                 [op |-> "on_final_message", text |-> <<"m", NL>>]>>
    /\ out = <<"A", NL, "m", NL>>
    /\ buf = <<>>

(***************************************************************************)
(* C16.  An "assistant" record flushes the pending partial line only if    *)
(* one of its blocks triggers a rendering: with no message or content, or  *)
(* with only non-mapping, unrecognized or empty-text blocks, it writes     *)
(* nothing and leaves the buffer as it is, so that a text delta that       *)
(* follows continues the same output line.                                 *)
(***************************************************************************)
IsQuietAssistant(l) ==
    /\ IsRecordOfType(l, T_assistant)
    /\ \/ ~HasKey(l.json, K_message)
       \/ /\ IsDict(DictGet(l.json, K_message))
          /\ ~HasKey(DictGet(l.json, K_message), K_content)
       \/ /\ IsAssistantWithBlocks(l)
          /\ \A i \in 1..Len(ContentOf(l).a) : ~Renders(ContentOf(l).a[i])

C16_QuietAssistantKeepsPartialLine ==
    [][/\ (Reading /\ IsQuietAssistant(LineRead)) =>
             (buf' = buf /\ out' = out /\ pc' = "run")
       /\ (Reading /\ inp # <<>> /\ IsQuietAssistant(LastOf(inp))
                   /\ DeltaTextOf(LineRead) # <<>>) =>
             out' \o buf' = out \o buf \o DeltaTextOf(LineRead)]_vars

\* "A", an assistant record with an empty text block, "B\n": one line "AB".
C16_Witness ==
    /\ inp = <<[json |-> TextDelta(JStr(<<"A">>))],
               [json |-> Assistant(JArr(<<TextBlock(<<>>)>>))],
               [json |-> TextDelta(JStr(<<"B", NL>>))]>>
    /\ out = <<"A", "B", NL>>
    /\ buf = <<>>

(***************************************************************************)
(* C17.  Text is conserved across any interleaving of records: at every    *)
(* point the text-delta characters written or still pending are exactly    *)
(* those appended, in their order, and once main has returned they are all *)
(* on stdout, each once; events only insert line breaks.                   *)
(***************************************************************************)
C17_TextConserved ==
    /\ SelectSeq(out \o buf, IsDeltaChar) = SelectSeq(AppendedText, IsDeltaChar)
    /\ pc = "done" => SelectSeq(buf, IsDeltaChar) = <<>>

\* Text deltas before and after a tool_use event; main has returned.
C17_Witness ==
    /\ pc = "done"
    /\ inp = <<[json |-> TextDelta(JStr(<<"A", NL, "B">>))],
               [json |-> Assistant(JArr(<<ToolUseBlock(JStr(<<"T">>), PayloadA1, JStr(<<"i">>))>>))],
               [json |-> TextDelta(JStr(<<"A">>))]>>
    /\ SelectSeq(out, IsDeltaChar) = <<"A", "B", "A">>
    /\ LinesOf(out)[2] = <<"B">>
    /\ LastOf(LinesOf(out)) = <<"A">>

(***************************************************************************)
(* C18.  stdout never stops in the middle of a line: after every step what *)
(* has been written is empty or ends with a newline; partial text is in    *)
(* the buffer.                                                             *)
(***************************************************************************)
C18_OutputEndsLine == out = <<>> \/ out[Len(out)] = NL

\* A full line is out and a partial line is held back.
C18_Witness ==
    /\ inp = <<[json |-> TextDelta(JStr(<<"A", NL, "B">>))]>>
    /\ pc = "run"
    /\ out = <<"A", NL>>
    /\ buf = <<"B">>

(***************************************************************************)
(* C19.  A "result" record is not terminal: after it the buffer is empty   *)
(* and main keeps reading, and later records are dispatched as before any  *)
(* result: a text delta extends the line in progress, a tool_use block     *)
(* writes its header and payload, another result writes its own header.    *)
(***************************************************************************)
ResultSeen(ls) == \E i \in 1..Len(ls) : IsRecordOfType(ls[i], T_result)

C19_ResultIsNotTerminal ==
    [][Reading =>
          /\ IsRecordOfType(LineRead, T_result) => (pc' = "run" /\ buf' = <<>>)
          /\ ResultSeen(inp) =>
                /\ DeltaTextOf(LineRead) # <<>> =>
                      /\ out' \o buf' = out \o buf \o DeltaTextOf(LineRead)
                      /\ ~IsIn(NL, buf')
                      /\ EndsLine(out')
                /\ IsSingleToolUse(LineRead) =>
                      out' = out \o PendingLine(buf)
                                 \o ToolUseOutput(ContentOf(LineRead).a[1],
                                                  IdPresentNotEmpty(ContentOf(LineRead).a[1]))
                /\ IsRecordOfType(LineRead, T_result) =>
                      /\ IsPrefixOf(out \o PendingLine(buf) \o <<NL, "=", "=", "=", " ">>, out')
                      /\ Len(out') >= Len(out) + Len(PendingLine(buf)) + Len(H_error) + 2]_vars

\* A result, then a text delta, then a second result.
C19_Witness ==
    /\ inp = <<[json |-> Result(JBool(FALSE), JStr(<<"d","o","n","e">>))],
               [json |-> TextDelta(JStr(<<"A">>))],
               [json |-> Result(JBool(TRUE), JStr(<<"r", NL>>))]>>
    /\ pc = "run"
    /\ LinesOf(out) = <<<<>>, H_success, <<"d","o","n","e">>, <<"A">>, <<>>, H_error, <<"r">>>>
    /\ buf = <<>>

====
